---- MODULE Spec2Model ----
(***************************************************************************)
(* Model of src/app.py (CurriculumGen): the Flask handlers /chat and       *)
(* /upload, the shared conversation_history list, the uploads scratch      *)
(* directory, and the pure helpers extract_table and allowed_file.         *)
(*                                                                         *)
(* Text is a sequence of one-character strings, so that str.strip,         *)
(* str.lower, str.split, "in" and str.endswith are computed as Python      *)
(* computes them.                                                          *)
(***************************************************************************)
EXTENDS Integers, Sequences, FiniteSets, TLC

VARIABLES
    history,    \* conversation_history (app.py:55): sequence of turns
    owner,      \* ghost: owner[i] is the id of the request that appended history[i]
    req,        \* per worker thread: the request it is handling and its locals
    disk,       \* names of the files present in the uploads folder
    nreq,       \* ghost: number of requests received so far
    scenario,   \* which deployment is explored; fixed by the initial state
    text,       \* input of the extract_table harness
    tableRes,   \* result of the extract_table harness
    tpc         \* position of the extract_table harness

vars == <<history, owner, req, disk, nreq, scenario, text, tableRes, tpc>>

(***************************************************************************)
(* Bounds                                                                  *)
(***************************************************************************)
\* requests received over one explored run of the "concurrent" scenario
MaxReq == 2
\* requests received over one explored run of the "sequential" scenario
MaxSeqReq == 3
\* requests received over one explored run of the "policy" scenario
MaxPolicyReq == 1
\* lines per text handed to the extract_table harness
MaxLines == 3

(***************************************************************************)
(* Python str operations                                                   *)
(***************************************************************************)
UpperLetters == <<"A","B","C","D","E","F","G","H","I","J","K","L","M",
                  "N","O","P","Q","R","S","T","U","V","W","X","Y","Z">>
LowerLetters == <<"a","b","c","d","e","f","g","h","i","j","k","l","m",
                  "n","o","p","q","r","s","t","u","v","w","x","y","z">>

\* the characters str.strip() removes
Whitespace == {" ", "\t", "\n", "\r"}

LowerChar(c) ==
    IF \E i \in 1..26 : UpperLetters[i] = c
    THEN LowerLetters[CHOOSE i \in 1..26 : UpperLetters[i] = c]
    ELSE c

\* str.lower()
Lower(s) == [i \in 1..Len(s) |-> LowerChar(s[i])]

\* sub in s
Contains(s, sub) ==
    \E i \in 0..(Len(s) - Len(sub)) : SubSeq(s, i + 1, i + Len(sub)) = sub

\* s.endswith(suf)
EndsWith(s, suf) ==
    /\ Len(suf) <= Len(s)
    /\ SubSeq(s, Len(s) - Len(suf) + 1, Len(s)) = suf

\* s.strip(chars)
StripChars(s, chars) ==
    LET keep == {i \in 1..Len(s) : s[i] \notin chars}
    IN  IF keep = {} THEN <<>>
        ELSE LET lo == CHOOSE i \in keep : \A j \in keep : i <= j
                 hi == CHOOSE i \in keep : \A j \in keep : j <= i
             IN  SubSeq(s, lo, hi)

\* s.strip()
Strip(s) == StripChars(s, Whitespace)

\* s.split(sep) for a one-character sep: n separators give n + 1 fields
RECURSIVE Split(_, _)
Split(s, sep) ==
    IF \A i \in 1..Len(s) : s[i] # sep
    THEN <<s>>
    ELSE LET k == CHOOSE i \in 1..Len(s) :
                      s[i] = sep /\ \A j \in 1..(i - 1) : s[j] # sep
         IN  <<SubSeq(s, 1, k - 1)>> \o Split(SubSeq(s, k + 1, Len(s)), sep)

\* s.rsplit(sep, 1) for a one-character sep occurring in s
RSplit1(s, sep) ==
    LET k == CHOOSE i \in 1..Len(s) :
                 s[i] = sep /\ \A j \in (i + 1)..Len(s) : s[j] # sep
    IN  <<SubSeq(s, 1, k - 1), SubSeq(s, k + 1, Len(s))>>

\* sep.join(parts)
RECURSIVE Join(_, _)
Join(parts, sep) ==
    IF Len(parts) = 0 THEN <<>>
    ELSE IF Len(parts) = 1 THEN parts[1]
    ELSE parts[1] \o sep \o Join(Tail(parts), sep)

(***************************************************************************)
(* Keywords of the source                                                  *)
(***************************************************************************)
kwCustomize   == <<"c","u","s","t","o","m","i","z","e">>
kwSpreadsheet == <<"s","p","r","e","a","d","s","h","e","e","t">>
kwTimetable   == <<"t","i","m","e","t","a","b","l","e">>
kwTableForm   == <<"t","a","b","l","e"," ","f","o","r","m">>
kwTabular     == <<"t","a","b","u","l","a","r">>
extPdf        == <<"p","d","f">>
extDocx       == <<"d","o","c","x">>
ALLOWED_EXTENSIONS == {extPdf, extDocx}

(***************************************************************************)
(* extract_table (app.py:67-86)                                            *)
(***************************************************************************)
NoTable == [ok |-> FALSE, headers |-> <<>>, rows |-> <<>>]

\* the condition of app.py:74
IsTableLine(line) ==
    /\ Contains(line, <<"|">>)
    /\ ~Contains(Lower(line), kwCustomize)
    /\ ~Contains(Lower(line), kwSpreadsheet)

\* the cells of one line (app.py:80, 82)
Cells(line) ==
    LET f == Split(line, "|") IN [i \in 1..Len(f) |-> Strip(f[i])]

extract_table_noexclude(response_text) ==
    LET lines == Split(Strip(response_text), "\n")
        table_lines == SelectSeq(lines, LAMBDA l : Contains(l, <<"|">>))
    IN  IF table_lines = <<>> THEN NoTable
        ELSE [ok |-> TRUE,
              headers |-> Cells(table_lines[1]),
              rows |-> [k \in 1..(Len(table_lines) - 1) |-> Cells(table_lines[k + 1])]]

\* ok = FALSE stands for the ValueError of app.py:78
extract_table(response_text) ==
    LET lines == Split(Strip(response_text), "\n")
        table_lines == SelectSeq(lines, IsTableLine)
    IN  IF table_lines = <<>> THEN NoTable
        ELSE [ok |-> TRUE,
              headers |-> Cells(table_lines[1]),
              rows |-> [k \in 1..(Len(table_lines) - 1) |-> Cells(table_lines[k + 1])]]

(***************************************************************************)
(* Texts handed to the extract_table harness                               *)
(***************************************************************************)
TableLines ==
    { <<"A"," ","|"," ","B">>,
      <<"1"," ","|"," ","2">>,
      <<"3"," ","|"," ","4">>,
      <<" ","x","|","|","y","\t">>,
      <<"n","o","t","e">>,
      <<>>,
      <<" ","\r">>,
      <<"C","u","s","t","o","m","i","z","e"," ","|","x">>,
      <<"|","S","p","r","e","a","d","S","h","e","e","t">>,
      <<"s","p","r","e","a","d","s","h","e","e","t">> }

Texts ==
    UNION { { Join(ls, <<"\n">>) : ls \in [1..n -> TableLines] } : n \in 1..MaxLines }


(***************************************************************************)
(* Scenarios and request inputs                                            *)
(***************************************************************************)
Threads == {"t1", "t2"}

\* "concurrent": the threaded server of app.run (two worker threads);
\* "sequential": one request at a time;
\* "policy": one request at a time, with texts that exercise table detection.
Workers == IF scenario = "concurrent" THEN Threads ELSE {"t1"}

sHi       == <<" ","h","i"," ">>
sBlank    == <<" ","\t">>
sTimeQ    == <<"a"," ","T","i","m","e","T","a","b","l","e">>
sFormQ    == <<"i","n"," ","T","a","b","l","e"," ","F","o","r","m">>
sTableA   == <<"t","i","m","e"," ","t","a","b","l","e","f","o","r","m">>
sOk       == <<" ","o","k","\n">>
sTabTable == <<"T","a","b","u","l","a","r",":","\n","A","|","B","\n","1","|","2">>
sTabNone  == <<"t","a","b","u","l","a","r">>
sPipes    == <<"A"," ","|"," ","B","\n","1"," ","|","2","|","3">>
sNoise    == <<"C","u","s","t","o","m","i","z","e"," ","|","x">>
sDoc      == <<"d","o","c","\n">>

\* raw user_input strings of /chat bodies
ChatTexts ==
    IF scenario = "policy" THEN {sHi, sTimeQ, sFormQ, sTableA}
    ELSE {sHi, sBlank}

\* texts the Model Gateway may return
GatewayTexts ==
    IF scenario = "policy" THEN {sOk, sTabTable, sTabNone, sPipes, sNoise}
    ELSE IF scenario = "sequential" THEN {sOk, sBlank}
    ELSE {sOk}

\* texts the Text Extractor may return
ExtractedTexts ==
    IF scenario = "sequential" THEN {sDoc, <<>>, sBlank} ELSE {sDoc}

\* the JSON body of a /chat request as request.get_json() and data.get see it
ChatBodies ==
    { [shape |-> "object", field |-> "string", text |-> s] : s \in ChatTexts }
    \cup { [shape |-> "object", field |-> "missing", text |-> <<>>],
           [shape |-> "object", field |-> "nonstring", text |-> <<>>],
           [shape |-> "nonobject", field |-> "missing", text |-> <<>>],
           [shape |-> "invalid", field |-> "missing", text |-> <<>>] }

fnPdf     == <<"a",".","p","d","f">>
fnDocx    == <<"b",".","d","o","c","x">>
fnUpper   == <<"A",".","P","D","F">>
fnDotPdf  == <<".","p","d","f">>
fnTxt     == <<"n",".","t","x","t">>
fnNoExt   == <<"n","o","e","x","t">>
fnPdfTxt  == <<"a",".","p","d","f",".","T","X","T">>

\* file.filename of the uploaded part
Filenames == {fnPdf, fnDocx, fnUpper, fnDotPdf, fnTxt, fnNoExt, fnPdfTxt, <<>>}

(***************************************************************************)
(* Helpers of the handlers                                                 *)
(***************************************************************************)
allowed_file_anyext(filename) == Contains(filename, <<".">>)

\* app.py:89-90
allowed_file(filename) ==
    /\ Contains(filename, <<".">>)
    /\ Lower(RSplit1(filename, ".")[2]) \in ALLOWED_EXTENSIONS

\* the characters werkzeug's secure_filename keeps
SafeChars ==
    {UpperLetters[i] : i \in 1..26} \cup {LowerLetters[i] : i \in 1..26}
    \cup {"0","1","2","3","4","5","6","7","8","9",".","_","-"}

\* secure_filename (app.py:178): whitespace runs become "_", characters outside
\* SafeChars are dropped, leading and trailing "." and "_" are stripped
secure_filename(filename) ==
    LET u == [i \in 1..Len(filename) |->
                 IF filename[i] \in Whitespace THEN "_" ELSE filename[i]]
    IN  StripChars(SelectSeq(u, LAMBDA c : c \in SafeChars), {".", "_"})

ParseUserInput_nostrip(body) ==
    IF body.field = "missing" THEN <<>> ELSE body.text

\* data.get("user_input", "").strip() (app.py:121) for an object body
ParseUserInput(body) ==
    Strip(IF body.field = "missing" THEN <<>> ELSE body.text)

UserTurn_raw(content) == [role |-> "user", parts |-> content]

\* the dict appended at app.py:131 and app.py:194
UserTurn(content) == [role |-> "user", parts |-> content \o <<"\n">>]

\* the dict appended at app.py:139 and app.py:198
ModelTurn(content) == [role |-> "model", parts |-> content \o <<"\n">>]

start_chat_droplast(hist) == SubSeq(hist, 1, Len(hist) - 1)

\* model.start_chat(history=conversation_history) (app.py:134, 195): the
\* session holds the contents of the list as they are at the call
start_chat(hist) == hist

TableTriggered_casesensitive(user_input, response_text) ==
    \/ Contains(user_input, kwTimetable)
    \/ Contains(user_input, kwTableForm)
    \/ Contains(response_text, kwTabular)

\* the condition of app.py:142-146
TableTriggered(user_input, response_text) ==
    \/ Contains(Lower(user_input), kwTimetable)
    \/ Contains(Lower(user_input), kwTableForm)
    \/ Contains(Lower(response_text), kwTabular)

\* jsonify payloads: msg is a fixed message or an error prefix ("" when the
\* response is the model's text), detail the str(e) of an error
Payload(msg, detail, txt, hasTable, table) ==
    [msg |-> msg, detail |-> detail, text |-> txt,
     hasTable |-> hasTable, table |-> table]
Fixed(msg) == Payload(msg, "", <<>>, FALSE, NoTable)
Plain(txt) == Payload("", "", txt, FALSE, NoTable)
WithTable(txt, table) == Payload("", "", txt, TRUE, table)
Failure(prefix, detail) == Payload(prefix, detail, <<>>, FALSE, NoTable)

\* the payload returned by app.py:142-155
ChatPayload(user_input, response_text) ==
    IF TableTriggered(user_input, response_text)
    THEN LET table_data == extract_table(response_text)
         IN  IF table_data.ok
             THEN WithTable(response_text,
                            [headers |-> table_data.headers, rows |-> table_data.rows])
             ELSE Plain(response_text)
    ELSE Plain(response_text)

\* a worker thread with no request
Idle ==
    [id |-> 0, kind |-> "none", pc |-> "idle", before |-> <<>>,
     body |-> [shape |-> "none", field |-> "missing", text |-> <<>>],
     net |-> TRUE, hasFile |-> FALSE, rawname |-> <<>>,
     user_input |-> <<>>, snap |-> <<>>, gw |-> "none", reply |-> <<>>,
     response_text |-> <<>>, filename |-> <<>>, saved |-> FALSE,
     file_content |-> <<>>, tried |-> FALSE,
     outcome |-> "none", payload |-> Fixed("")]

\* the handler returns a response
Return(r, payload) ==
    [r EXCEPT !.pc = "done", !.outcome = "payload", !.payload = payload]

\* an exception leaves the handler
Raise(r, detail) ==
    [r EXCEPT !.pc = "done", !.outcome = "raised",
              !.payload = Failure("", detail)]


(***************************************************************************)
(* Initial states                                                          *)
(***************************************************************************)
ReqLimit ==
    IF scenario = "policy" THEN MaxPolicyReq
    ELSE IF scenario = "sequential" THEN MaxSeqReq
    ELSE MaxReq

InitHandlers(sc) ==
    /\ history = <<>>
    /\ owner = <<>>
    /\ req = [t \in Threads |-> Idle]
    /\ disk = {}
    /\ nreq = 0
    /\ scenario = sc
    /\ text = <<>>
    /\ tableRes = NoTable
    /\ tpc = "off"

Init == InitHandlers("concurrent")
InitSeq == InitHandlers("sequential")
InitPolicy == InitHandlers("policy")

InitTable ==
    /\ history = <<>>
    /\ owner = <<>>
    /\ req = [t \in Threads |-> Idle]
    /\ disk = {}
    /\ nreq = 0
    /\ scenario = "table"
    /\ text \in Texts
    /\ tableRes = NoTable
    /\ tpc = "input"

harness == <<scenario, text, tableRes, tpc>>

(***************************************************************************)
(* /chat (app.py:115-158)                                                  *)
(***************************************************************************)
\* app.py:120-127: read the body, validate, probe the network
ChatBegin(t) ==
    /\ t \in Workers
    /\ req[t].pc = "idle"
    /\ nreq < ReqLimit
    /\ \E body \in ChatBodies, net \in BOOLEAN :
         LET r == [Idle EXCEPT !.id = nreq + 1, !.kind = "chat",
                               !.before = history, !.body = body,
                               !.net = net]
             user_input == ParseUserInput(body)
         IN  req' = [req EXCEPT ![t] =
                 IF body.shape = "invalid" THEN Raise(r, "BadRequest")
                 ELSE IF body.shape = "nonobject" THEN Raise(r, "AttributeError")
                 ELSE IF body.field = "nonstring" THEN Raise(r, "AttributeError")
                 ELSE IF user_input = <<>>
                      THEN Return(r, Fixed("Input cannot be empty."))
                 ELSE IF ~net
                      THEN Return(r, Fixed("Network error. Please check your connection."))
                 ELSE [r EXCEPT !.pc = "chat_append_user",
                                !.user_input = user_input]]
    /\ nreq' = nreq + 1
    /\ UNCHANGED <<history, owner, disk, harness>>

\* app.py:131
ChatAppendUser(t) ==
    /\ req[t].pc = "chat_append_user"
    /\ history' = Append(history, UserTurn(req[t].user_input))
    /\ owner' = Append(owner, req[t].id)
    /\ req' = [req EXCEPT ![t].pc = "chat_start"]
    /\ UNCHANGED <<disk, nreq, harness>>

\* app.py:134
ChatStartChat(t) ==
    /\ req[t].pc = "chat_start"
    /\ req' = [req EXCEPT ![t].snap = start_chat(history), ![t].pc = "chat_send"]
    /\ UNCHANGED <<history, owner, disk, nreq, harness>>

\* app.py:135-136, 157-158: the Model Gateway answers or fails
ChatSend(t) ==
    /\ req[t].pc = "chat_send"
    /\ \E ok \in BOOLEAN, reply \in GatewayTexts :
         LET r == [req[t] EXCEPT !.gw = IF ok THEN "ok" ELSE "failed"]
         IN  req' = [req EXCEPT ![t] =
                 IF ok
                 THEN [r EXCEPT !.reply = reply, !.response_text = Strip(reply),
                                !.pc = "chat_append_model"]
                 ELSE Return(r, Failure("Error: ", "GatewayFailure"))]
    /\ UNCHANGED <<history, owner, disk, nreq, harness>>

\* app.py:139-155
ChatFinish(t) ==
    /\ req[t].pc = "chat_append_model"
    /\ history' = Append(history, ModelTurn(req[t].response_text))
    /\ owner' = Append(owner, req[t].id)
    /\ req' = [req EXCEPT ![t] =
           Return([req[t] EXCEPT !.tried =
                       TableTriggered(req[t].user_input, req[t].response_text)],
                  ChatPayload(req[t].user_input, req[t].response_text))]
    /\ UNCHANGED <<disk, nreq, harness>>

(***************************************************************************)
(* /upload (app.py:161-204)                                                *)
(***************************************************************************)
\* app.py:163-171, 203-204
UploadBegin(t) ==
    /\ t \in Workers
    /\ req[t].pc = "idle"
    /\ nreq < ReqLimit
    /\ \E hasFile \in BOOLEAN, fname \in Filenames :
         LET r == [Idle EXCEPT !.id = nreq + 1, !.kind = "upload",
                               !.before = history, !.hasFile = hasFile,
                               !.rawname = IF hasFile THEN fname ELSE <<>>]
         IN  req' = [req EXCEPT ![t] =
                 IF ~hasFile THEN Return(r, Fixed("No file part in the request."))
                 ELSE IF fname = <<>> THEN Return(r, Fixed("No file selected."))
                 ELSE IF allowed_file(fname) THEN [r EXCEPT !.pc = "upload_save"]
                 ELSE Return(r, Fixed("Invalid file type. Only PDF and DOCX are allowed."))]
    /\ nreq' = nreq + 1
    /\ UNCHANGED <<history, owner, disk, harness>>

\* app.py:173-180
UploadSave(t) ==
    /\ req[t].pc = "upload_save"
    /\ LET filename == secure_filename(req[t].rawname)
       IN  /\ disk' = disk \cup {filename}
           /\ req' = [req EXCEPT ![t].filename = filename, ![t].saved = TRUE,
                                 ![t].pc = "upload_extract"]
    /\ UNCHANGED <<history, owner, nreq, harness>>

\* what extract_pdf_text / extract_docx_text may do with the scratch file:
\* return text, or raise (always, when the file is no longer there)
ExtractResults(filename) ==
    {[ok |-> FALSE, text |-> <<>>]}
    \cup IF filename \in disk
         THEN {[ok |-> TRUE, text |-> s] : s \in ExtractedTexts}
         ELSE {}

\* app.py:182-188, 201-202
UploadExtract(t) ==
    /\ req[t].pc = "upload_extract"
    /\ \E res \in ExtractResults(req[t].filename) :
         req' = [req EXCEPT ![t] =
             IF \/ EndsWith(req[t].filename, <<".">> \o extPdf)
                \/ EndsWith(req[t].filename, <<".">> \o extDocx)
             THEN IF res.ok
                  THEN [req[t] EXCEPT !.file_content = res.text,
                                      !.pc = "upload_remove"]
                  ELSE Return(req[t],
                              Failure("Error processing file: ", "ExtractionFailure"))
             ELSE Return(req[t], Fixed("Unsupported file format."))]
    /\ UNCHANGED <<history, owner, disk, nreq, harness>>

\* app.py:191, 201-202
UploadRemove(t) ==
    /\ req[t].pc = "upload_remove"
    /\ IF req[t].filename \in disk
       THEN /\ disk' = disk \ {req[t].filename}
            /\ req' = [req EXCEPT ![t].pc = "upload_append_user"]
       ELSE /\ disk' = disk
            /\ req' = [req EXCEPT ![t] =
                   Return(req[t],
                          Failure("Error processing file: ", "FileNotFoundError"))]
    /\ UNCHANGED <<history, owner, nreq, harness>>

\* app.py:194
UploadAppendUser(t) ==
    /\ req[t].pc = "upload_append_user"
    /\ history' = Append(history, UserTurn(req[t].file_content))
    /\ owner' = Append(owner, req[t].id)
    /\ req' = [req EXCEPT ![t].pc = "upload_start"]
    /\ UNCHANGED <<disk, nreq, harness>>

\* app.py:195
UploadStartChat(t) ==
    /\ req[t].pc = "upload_start"
    /\ req' = [req EXCEPT ![t].snap = start_chat(history), ![t].pc = "upload_send"]
    /\ UNCHANGED <<history, owner, disk, nreq, harness>>

\* app.py:196-197, 201-202
UploadSend(t) ==
    /\ req[t].pc = "upload_send"
    /\ \E ok \in BOOLEAN, reply \in GatewayTexts :
         LET r == [req[t] EXCEPT !.gw = IF ok THEN "ok" ELSE "failed"]
         IN  req' = [req EXCEPT ![t] =
                 IF ok
                 THEN [r EXCEPT !.reply = reply, !.response_text = Strip(reply),
                                !.pc = "upload_append_model"]
                 ELSE Return(r, Failure("Error processing file: ", "GatewayFailure"))]
    /\ UNCHANGED <<history, owner, disk, nreq, harness>>

\* app.py:198-200
UploadFinish(t) ==
    /\ req[t].pc = "upload_append_model"
    /\ history' = Append(history, ModelTurn(req[t].response_text))
    /\ owner' = Append(owner, req[t].id)
    /\ req' = [req EXCEPT ![t] = Return(req[t], Plain(req[t].response_text))]
    /\ UNCHANGED <<disk, nreq, harness>>

\* the response has been sent; the worker thread takes the next request
Complete(t) ==
    /\ req[t].pc = "done"
    /\ req' = [req EXCEPT ![t] = Idle]
    /\ UNCHANGED <<history, owner, disk, nreq, harness>>

Next ==
    \E t \in Threads :
        \/ ChatBegin(t)
        \/ ChatAppendUser(t)
        \/ ChatStartChat(t)
        \/ ChatSend(t)
        \/ ChatFinish(t)
        \/ UploadBegin(t)
        \/ UploadSave(t)
        \/ UploadExtract(t)
        \/ UploadRemove(t)
        \/ UploadAppendUser(t)
        \/ UploadStartChat(t)
        \/ UploadSend(t)
        \/ UploadFinish(t)
        \/ Complete(t)

Spec == Init /\ [][Next]_vars
SpecSeq == InitSeq /\ [][Next]_vars
SpecPolicy == InitPolicy /\ [][Next]_vars

(***************************************************************************)
(* extract_table applied to one text                                       *)
(***************************************************************************)
ExtractTableStep ==
    /\ tpc = "input"
    /\ tableRes' = extract_table(text)
    /\ tpc' = "done"
    /\ UNCHANGED <<history, owner, req, disk, nreq, scenario, text>>

NextTable == ExtractTableStep

SpecTable == InitTable /\ [][NextTable]_vars

TypeOK ==
    /\ Len(owner) = Len(history)
    /\ \A i \in 1..Len(history) : history[i].role \in {"user", "model"}
    /\ \A t \in Threads : req[t].outcome \in {"none", "payload", "raised"}


(***************************************************************************)
(* Vocabulary of the properties                                            *)
(***************************************************************************)
\* the user_input a /chat body carries, before trimming ("" when absent)
RawInput(r) == IF r.body.field = "string" THEN r.body.text ELSE <<>>

\* the body of a /chat request is an object whose user_input is text or absent
ReadableBody(r) == r.body.shape = "object" /\ r.body.field # "nonstring"

\* positions of the turns request r appended
TurnsOf(r, own) == {i \in 1..Len(own) : own[i] = r.id}

\* thread t's request returns in this step
Completes(t) == req[t].pc # "done" /\ req'[t].pc = "done"

\* a /chat request that passed validation and whose gateway call succeeded
ChatSucceeded(r) ==
    /\ r.kind = "chat"
    /\ r.pc = "done"
    /\ ReadableBody(r)
    /\ Strip(RawInput(r)) # <<>>
    /\ r.net
    /\ r.gw = "ok"

ExpectedUserTurn(r) == [role |-> "user", parts |-> Strip(RawInput(r)) \o <<"\n">>]
ExpectedModelTurn(r) == [role |-> "model", parts |-> Strip(r.reply) \o <<"\n">>]

C2_StrictAlternation ==
    \A i \in 1..Len(history) :
        history[i].role = IF i % 2 = 1 THEN "user" ELSE "model"

(***************************************************************************)
(* C3                                                                      *)
(***************************************************************************)
\* C3: once an /upload request that saved a scratch file has returned, the
\* scratch file does not exist.
C3_ScratchFileRemoved ==
    \A t \in Threads :
        (req[t].kind = "upload" /\ req[t].pc = "done" /\ req[t].saved)
            => req[t].filename \notin disk

(***************************************************************************)
(* C4                                                                      *)
(***************************************************************************)
\* C4: a /chat request whose input is empty after trimming returns exactly
\* "Input cannot be empty."; one whose input is non-empty while the network
\* probe fails returns the network error message; in both cases the gateway
\* is never invoked and the request appends nothing to the store.
C4_FailFast ==
    \A t \in Threads :
        LET r == req[t]
            rejected(msg) ==
                /\ r.pc = "done"
                /\ r.outcome = "payload"
                /\ r.payload = [msg |-> msg, detail |-> "", text |-> <<>>,
                                hasTable |-> FALSE, table |-> NoTable]
                /\ r.gw = "none"
                /\ r.snap = <<>>
                /\ TurnsOf(r, owner) = {}
                /\ SubSeq(history, 1, Len(r.before)) = r.before
        IN  (r.kind = "chat" /\ ReadableBody(r)) =>
                /\ Strip(RawInput(r)) = <<>>
                      => rejected("Input cannot be empty.")
                /\ (Strip(RawInput(r)) # <<>> /\ ~r.net)
                      => rejected("Network error. Please check your connection.")

\* a request with non-empty input has been rejected for lack of network
\* while the store, already holding turns, stayed as it was
C4_Witness ==
    \E t \in Threads :
        /\ req[t].kind = "chat" /\ req[t].pc = "done"
        /\ Strip(RawInput(req[t])) # <<>> /\ ~req[t].net
        /\ req[t].payload.msg = "Network error. Please check your connection."
        /\ Len(history) > 0
        /\ history = req[t].before

(***************************************************************************)
(* C5                                                                      *)
(***************************************************************************)
\* the lines of a response that the extractor retains
RetainedLines(resp) ==
    SelectSeq(Split(resp, "\n"),
              LAMBDA l : /\ \E i \in 1..Len(l) : l[i] = "|"
                         /\ ~Contains(Lower(l), kwCustomize)
                         /\ ~Contains(Lower(l), kwSpreadsheet))

\* C5: for a successful /chat request, extraction is attempted exactly when
\* the input contains "timetable" or "table form" or the response contains
\* "tabular", case-insensitively; the payload has a table exactly when
\* extraction was attempted and a line was retained; otherwise the payload is
\* the plain response text, never an error message.
C5_TablePolicy ==
    \A t \in Threads :
        LET r == req[t]
            input == Lower(Strip(RawInput(r)))
            resp == Strip(r.reply)
            triggered == \/ Contains(input, kwTimetable)
                         \/ Contains(input, kwTableForm)
                         \/ Contains(Lower(resp), kwTabular)
        IN  ChatSucceeded(r) =>
                /\ r.outcome = "payload"
                /\ r.tried <=> triggered
                /\ r.payload.hasTable <=> (triggered /\ RetainedLines(resp) # <<>>)
                /\ r.payload.msg = "" /\ r.payload.detail = ""
                /\ r.payload.text = resp
                /\ ~r.payload.hasTable => r.payload.table = NoTable

\* extraction was attempted because of the input alone, found no table line,
\* and the plain response came back
C5_Witness ==
    \E t \in Threads :
        /\ ChatSucceeded(req[t])
        /\ Contains(Lower(req[t].user_input), kwTimetable)
        /\ ~Contains(Lower(req[t].response_text), kwTabular)
        /\ Contains(req[t].response_text, <<"|">>)
        /\ req[t].tried
        /\ ~req[t].payload.hasTable
        /\ req[t].payload.text = req[t].response_text

(***************************************************************************)
(* C6                                                                      *)
(***************************************************************************)
ExampleText ==
    <<"A"," ","|"," ","B","\n","1"," ","|"," ","2","\n","3"," ","|"," ","4">>

\* the whitespace-trimmed "|"-separated fields of a line
TrimmedFields(line) ==
    LET f == Split(line, "|") IN [i \in 1..Len(f) |-> Strip(f[i])]

\* C6: extract_table retains, in order, exactly the lines of the text that
\* contain "|" and neither "customize" nor "spreadsheet" (case-insensitively);
\* it fails exactly when no line is retained, in particular when the text has
\* no "|"; otherwise headers are the trimmed fields of the first retained
\* line and rows the trimmed fields of each further retained line, one row
\* per line, each with as many cells as its own line has fields.
C6_ExtractTable ==
    tpc = "done" =>
        LET kept == RetainedLines(text)
            pipes(l) == Cardinality({i \in 1..Len(l) : l[i] = "|"})
        IN  /\ tableRes.ok <=> kept # <<>>
            /\ (\A i \in 1..Len(text) : text[i] # "|") => ~tableRes.ok
            /\ ~tableRes.ok => tableRes = NoTable
            /\ tableRes.ok =>
                  /\ tableRes.headers = TrimmedFields(kept[1])
                  /\ Len(tableRes.rows) = Len(kept) - 1
                  /\ \A k \in 1..(Len(kept) - 1) :
                        /\ tableRes.rows[k] = TrimmedFields(kept[k + 1])
                        /\ Len(tableRes.rows[k]) = pipes(kept[k + 1]) + 1
            /\ text = ExampleText =>
                  tableRes = [ok |-> TRUE, headers |-> <<<<"A">>, <<"B">>>>,
                              rows |-> << <<<<"1">>, <<"2">>>>,
                                          <<<<"3">>, <<"4">>>> >>]

\* a text with an excluded "|" line and a ragged row has been parsed: the
\* row has three cells under a two-cell header
C6_Witness ==
    /\ tpc = "done"
    /\ tableRes.ok
    /\ Len(RetainedLines(text)) < Len(Split(text, "\n"))
    /\ \E i \in 1..Len(Split(text, "\n")) :
          /\ Contains(Split(text, "\n")[i], <<"|">>)
          /\ Contains(Lower(Split(text, "\n")[i]), kwSpreadsheet)
    /\ Len(tableRes.rows) >= 1
    /\ Len(tableRes.headers) = 2
    /\ Len(tableRes.rows[1]) = 3


(***************************************************************************)
(* C7                                                                      *)
(***************************************************************************)
\* C7: every /chat request returns a JSON payload; whenever something failed
\* while handling it (reading the body or its user_input field, the gateway
\* call), the payload is an "Error: <detail>" message.
C7_NoExceptionEscapes ==
    \A t \in Threads :
        (req[t].kind = "chat" /\ req[t].pc = "done") =>
            /\ req[t].outcome = "payload"
            /\ (~ReadableBody(req[t]) \/ req[t].gw = "failed")
                  => (req[t].payload.msg = "Error: " /\ req[t].payload.detail # "")

(***************************************************************************)
(* C8                                                                      *)
(***************************************************************************)
\* the filename has no extension, or one outside {pdf, docx} whatever its case
NotPdfOrDocx(name) ==
    LET dots == {i \in 1..Len(name) : name[i] = "."}
    IN  \/ dots = {}
        \/ LET d == CHOOSE i \in dots : \A j \in dots : j <= i
           IN  Lower(SubSeq(name, d + 1, Len(name))) \notin {extPdf, extDocx}

\* what C8 promises of a rejected upload
UploadRejected(r) ==
    /\ r.pc = "done"
    /\ r.outcome = "payload"
    /\ r.payload = [msg |-> "Invalid file type. Only PDF and DOCX are allowed.",
                    detail |-> "", text |-> <<>>,
                    hasTable |-> FALSE, table |-> NoTable]
    /\ r.gw = "none"
    /\ r.snap = <<>>
    /\ ~r.saved
    /\ TurnsOf(r, owner) = {}
    /\ SubSeq(history, 1, Len(r.before)) = r.before

\* C8 as stated: every /upload request whose filename has no extension or an
\* extension outside {pdf, docx} is answered with the invalid-file-type
\* message, without gateway call, scratch file or appended turn.
C8_InvalidTypeRejected ==
    \A t \in Threads :
        (req[t].kind = "upload" /\ req[t].hasFile /\ NotPdfOrDocx(req[t].rawname))
            => UploadRejected(req[t])

\* C8 amended: the same, for every /upload request whose filename is
\* non-empty (an empty filename is answered "No file selected." instead).
C8_NonEmptyInvalidTypeRejected ==
    \A t \in Threads :
        (/\ req[t].kind = "upload" /\ req[t].hasFile
         /\ req[t].rawname # <<>> /\ NotPdfOrDocx(req[t].rawname))
            => UploadRejected(req[t])

\* a ".txt" upload has been rejected while the store already held turns
C8_Witness ==
    \E t \in Threads :
        /\ req[t].kind = "upload" /\ req[t].pc = "done"
        /\ req[t].rawname = fnTxt
        /\ req[t].payload.msg = "Invalid file type. Only PDF and DOCX are allowed."
        /\ Len(history) > 0
        /\ history = req[t].before
        /\ disk = {}

(***************************************************************************)
(* C9                                                                      *)
(***************************************************************************)
\* C9: in every reachable state every turn of the store has role user or
\* model and content that is non-empty after trimming whitespace.
C9_TurnsNonEmpty ==
    \A i \in 1..Len(history) :
        /\ history[i].role \in {"user", "model"}
        /\ Strip(history[i].parts) # <<>>

(***************************************************************************)
(* C10                                                                     *)
(***************************************************************************)
\* thread t's request has opened its chat session
SessionOpened(r) ==
    r.pc \in {"chat_send", "upload_send"} \/ r.gw # "none"

\* C10: no isolation. The history a request hands to the Model Gateway is
\* the shared store as a whole at the moment of the call: a prefix of the
\* store that reaches at least the request's own user turn and therefore
\* contains every turn any other request appended before it.
C10_GatewaySeesSharedStore ==
    \A t \in Threads :
        LET r == req[t]
        IN  SessionOpened(r) =>
                /\ Len(r.snap) <= Len(history)
                /\ r.snap = SubSeq(history, 1, Len(r.snap))
                /\ \E k \in TurnsOf(r, owner) :
                      /\ history[k].role = "user"
                      /\ k <= Len(r.snap)
                      /\ \A i \in 1..k : r.snap[i] = history[i]

\* a /chat request and an /upload request have both returned; their user
\* turns are adjacent in the store ahead of both model replies, and the
\* history the chat request handed to the gateway held the uploaded
\* document's turn while the upload was still in flight
C10_Witness ==
    \E t, u \in Threads :
        /\ req[t].kind = "chat" /\ req[u].kind = "upload"
        /\ req[t].pc = "done" /\ req[u].pc = "done"
        /\ req[t].gw = "ok" /\ req[u].gw = "ok"
        /\ \E i \in 1..(Len(history) - 3) :
              /\ {owner[i], owner[i + 1]} = {req[t].id, req[u].id}
              /\ history[i].role = "user" /\ history[i + 1].role = "user"
              /\ history[i + 2].role = "model" /\ history[i + 3].role = "model"
              /\ {owner[i + 2], owner[i + 3]} = {req[t].id, req[u].id}
              /\ Len(req[t].snap) = i + 1
              /\ \E k \in 1..Len(req[t].snap) :
                    /\ owner[k] = req[u].id
                    /\ req[t].snap[k] = [role |-> "user",
                                         parts |-> req[u].file_content \o <<"\n">>]

====
